--------------------------- MODULE Spec2Model ---------------------------
(***************************************************************************)
(* A model of src/ai_agents.py: the four-stage prompt chain (planner,      *)
(* coder, critic, tester), the orchestrator that sequences the stages, the *)
(* persistence of a result, and the command-line entry point.              *)
(*                                                                         *)
(* Texts are sequences of one-character strings so that substring tests,   *)
(* str.lower and json.loads are computed on the characters.  Python values *)
(* are tagged records; an operation that can raise returns a record whose  *)
(* field exc names the exception type ("" when none is raised).            *)
(***************************************************************************)
EXTENDS Integers, Sequences, FiniteSets, TLC

VARIABLES
    pc,          \* position of main(): the pipeline state
    env,         \* process environment: variable name -> value (None when unset)
    args,        \* parsed command line: prompt and --save
    agents,      \* the agents built by AIAgentOrchestrator.__init__
    calls,       \* every return of call_openai so far, with what was sent
    outcomes,    \* what the chat-completion request did, per stage that called it
    stages,      \* the stages started so far, in order
    tasks,       \* generate_code's local tasks
    code_result, \* generate_code's local code_result
    review,      \* generate_code's local review
    tests,       \* generate_code's local tests
    result,      \* the record returned by generate_code
    files,       \* files opened for writing by save_result: name -> content written
    exc          \* the exception that ended the program, if any

vars == <<pc, env, args, agents, calls, outcomes, stages, tasks, code_result,
          review, tests, result, files, exc>>

-----------------------------------------------------------------------------
(* Python values *)

PyNone == [t |-> "none"]

PyStr(s) == [t |-> "str", s |-> s]

PyInt(n) == [t |-> "int", n |-> n]

PyBool(b) == [t |-> "bool", b |-> b]

PyList(items) == [t |-> "list", items |-> items]

\* A dict whose keys are texts: d is a function from the keys to the values.
PyDict(d) == [t |-> "dict", d |-> d]

EmptyMap == [k \in {} |-> PyNone]

IsStr(v) == v.t = "str"

\* bool(v)
PyTruthy(v) ==
    CASE v.t = "none" -> FALSE
      [] v.t = "bool" -> v.b
      [] v.t = "int"  -> v.n # 0
      [] v.t = "str"  -> Len(v.s) > 0
      [] v.t = "list" -> Len(v.items) > 0
      [] v.t = "dict" -> DOMAIN v.d # {}

NoExc(v) == [exc |-> "", v |-> v]

Raise(type) == [exc |-> type, v |-> PyNone]

\* len(v)
PyLen(v) ==
    CASE v.t = "str"  -> NoExc(PyInt(Len(v.s)))
      [] v.t = "list" -> NoExc(PyInt(Len(v.items)))
      [] v.t = "dict" -> NoExc(PyInt(Cardinality(DOMAIN v.d)))
      [] OTHER        -> Raise("TypeError")

\* v[key] for a str key
PyGetItem(v, key) ==
    CASE v.t = "dict" -> IF key \in DOMAIN v.d THEN NoExc(v.d[key]) ELSE Raise("KeyError")
      [] OTHER        -> Raise("TypeError")

\* The values "for x in v" yields in order (the keys of a dict are taken in
\* an arbitrary fixed order), or the TypeError of iterating a non-iterable.
RECURSIVE SetToSeq(_)
SetToSeq(S) ==
    IF S = {} THEN <<>>
    ELSE LET x == CHOOSE y \in S : TRUE IN <<x>> \o SetToSeq(S \ {x})

PyIter(v) ==
    CASE v.t = "list" -> [exc |-> "", items |-> v.items]
      [] v.t = "str"  -> [exc |-> "", items |-> [i \in 1..Len(v.s) |-> PyStr(<<v.s[i]>>)]]
      [] v.t = "dict" -> [exc |-> "", items |-> [i \in 1..Cardinality(DOMAIN v.d) |->
                                                   PyStr(SetToSeq(DOMAIN v.d)[i])]]
      [] OTHER        -> [exc |-> "TypeError", items |-> <<>>]

-----------------------------------------------------------------------------
(* Text helpers *)

UpperChars == <<"A","B","C","D","E","F","G","H","I","J","K","L","M",
                "N","O","P","Q","R","S","T","U","V","W","X","Y","Z">>

LowerChars == <<"a","b","c","d","e","f","g","h","i","j","k","l","m",
                "n","o","p","q","r","s","t","u","v","w","x","y","z">>

LowerChar(c) ==
    IF \E i \in DOMAIN UpperChars : UpperChars[i] = c
    THEN LowerChars[CHOOSE i \in DOMAIN UpperChars : UpperChars[i] = c]
    ELSE c

\* str.lower()
Lower(s) == [i \in 1..Len(s) |-> LowerChar(s[i])]

\* sub in s
Contains(s, sub) ==
    \E i \in 0..(Len(s) - Len(sub)) : SubSeq(s, i + 1, i + Len(sub)) = sub

\* s[:n]
Prefix(s, n) == SubSeq(s, 1, IF Len(s) < n THEN Len(s) ELSE n)

-----------------------------------------------------------------------------
(* json.loads, on the characters.  The grammar covers what the modelled     *)
(* responses use: objects, arrays, strings without escapes, integers, true, *)
(* false, null, with blanks and newlines between tokens.                    *)

Digits == <<"0","1","2","3","4","5","6","7","8","9">>

IsDigit(c) == \E i \in DOMAIN Digits : Digits[i] = c

DigitVal(c) == (CHOOSE i \in DOMAIN Digits : Digits[i] = c) - 1

IsWs(c) == c \in {" ", "\n", "\t", "\r"}

Fail == [ok |-> FALSE, v |-> PyNone, i |-> 0]

Ok(v, i) == [ok |-> TRUE, v |-> v, i |-> i]

\* The first index at or after i that holds no whitespace (Len(s)+1 at the end).
RECURSIVE SkipWs(_, _)
SkipWs(s, i) == IF i <= Len(s) /\ IsWs(s[i]) THEN SkipWs(s, i + 1) ELSE i

\* Whether the literal lit stands at index i of s.
StartsAt(s, i, lit) == i + Len(lit) - 1 <= Len(s) /\ SubSeq(s, i, i + Len(lit) - 1) = lit

\* The index of the closing quote of the string whose first character is at i, or 0.
RECURSIVE StringEnd(_, _)
StringEnd(s, i) ==
    IF i > Len(s) \/ s[i] = "\n" \/ s[i] = "\\" THEN 0
    ELSE IF s[i] = "\"" THEN i
    ELSE StringEnd(s, i + 1)

\* A string whose opening quote is at i.
ParseString(s, i) ==
    LET e == StringEnd(s, i + 1)
    IN  IF e = 0 THEN Fail ELSE Ok(PyStr(SubSeq(s, i + 1, e - 1)), e + 1)

\* The digits from index i on: their value after acc, and the index after them.
RECURSIVE ParseDigits(_, _, _)
ParseDigits(s, i, acc) ==
    IF i <= Len(s) /\ IsDigit(s[i])
    THEN ParseDigits(s, i + 1, acc * 10 + DigitVal(s[i]))
    ELSE [n |-> acc, i |-> i]

\* An integer at i: an optional minus, then 0 or a digit string with no leading 0.
ParseNumber(s, i) ==
    LET neg == s[i] = "-"
        j   == IF neg THEN i + 1 ELSE i
    IN  IF j > Len(s) \/ ~IsDigit(s[j]) THEN Fail
        ELSE IF s[j] = "0" THEN Ok(PyInt(0), j + 1)
        ELSE LET d == ParseDigits(s, j, 0)
             IN  Ok(PyInt(IF neg THEN 0 - d.n ELSE d.n), d.i)

RECURSIVE ParseValue(_, _), ParseItems(_, _, _), ParseMembers(_, _, _)

\* The value that starts at the first non-blank index at or after i.
ParseValue(s, i0) ==
    LET i == SkipWs(s, i0)
    IN  IF i > Len(s) THEN Fail
        ELSE CASE s[i] = "{"  ->
                    LET j == SkipWs(s, i + 1)
                    IN  IF j <= Len(s) /\ s[j] = "}" THEN Ok(PyDict(EmptyMap), j + 1)
                        ELSE ParseMembers(s, j, EmptyMap)
               [] s[i] = "["  ->
                    LET j == SkipWs(s, i + 1)
                    IN  IF j <= Len(s) /\ s[j] = "]" THEN Ok(PyList(<<>>), j + 1)
                        ELSE ParseItems(s, j, <<>>)
               [] s[i] = "\"" -> ParseString(s, i)
               [] StartsAt(s, i, <<"t","r","u","e">>)     -> Ok(PyBool(TRUE), i + 4)
               [] StartsAt(s, i, <<"f","a","l","s","e">>) -> Ok(PyBool(FALSE), i + 5)
               [] StartsAt(s, i, <<"n","u","l","l">>)     -> Ok(PyNone, i + 4)
               [] s[i] = "-" \/ IsDigit(s[i]) -> ParseNumber(s, i)
               [] OTHER -> Fail

\* The items of an array from index i on, after the items acc, up to its "]".
ParseItems(s, i, acc) ==
    LET r == ParseValue(s, i)
    IN  IF ~r.ok THEN Fail
        ELSE LET j == SkipWs(s, r.i)
             IN  IF j > Len(s) THEN Fail
                 ELSE IF s[j] = "]" THEN Ok(PyList(Append(acc, r.v)), j + 1)
                 ELSE IF s[j] = "," THEN ParseItems(s, j + 1, Append(acc, r.v))
                 ELSE Fail

\* The members of an object from index i on, after the members acc, up to its
\* "}".  A repeated key keeps its last value.
ParseMembers(s, i0, acc) ==
    LET i == SkipWs(s, i0)
    IN  IF i > Len(s) \/ s[i] # "\"" THEN Fail
        ELSE LET k == ParseString(s, i)
                 c == SkipWs(s, k.i)
             IN  IF ~k.ok \/ c > Len(s) THEN Fail
                 ELSE IF s[c] # ":" THEN Fail
                 ELSE LET r == ParseValue(s, c + 1)
                      IN  IF ~r.ok THEN Fail
                          ELSE LET j   == SkipWs(s, r.i)
                                   new == (k.v.s :> r.v) @@ acc
                               IN  IF j > Len(s) THEN Fail
                                   ELSE IF s[j] = "}" THEN Ok(PyDict(new), j + 1)
                                   ELSE IF s[j] = "," THEN ParseMembers(s, j + 1, new)
                                   ELSE Fail

\* json.loads(v): TypeError for a value that is no text, JSONDecodeError for a
\* text that holds no JSON value or holds more after it.
JsonLoads(v) ==
    IF ~IsStr(v) THEN Raise("TypeError")
    ELSE LET r == ParseValue(v.s, 1)
         IN  IF r.ok /\ SkipWs(v.s, r.i) > Len(v.s) THEN NoExc(r.v)
             ELSE Raise("JSONDecodeError")

-----------------------------------------------------------------------------
(* The texts of the program and of the modelled responses *)

K_id ==
    <<"i","d">>

K_task ==
    <<"t","a","s","k">>

K_priority ==
    <<"p","r","i","o","r","i","t","y">>

K_score ==
    <<"s","c","o","r","e">>

K_issues ==
    <<"i","s","s","u","e","s">>

K_suggestions ==
    <<"s","u","g","g","e","s","t","i","o","n","s">>

K_approved ==
    <<"a","p","p","r","o","v","e","d">>

T_1 ==
    <<"1">>

T_2 ==
    <<"2">>

T_high ==
    <<"h","i","g","h">>

T_AnalyzeRequirements ==
    <<"A","n","a","l","y","z","e"," ","r","e","q","u","i","r","e","m","e","n","t","s">>

T_ImplementSolution ==
    <<"I","m","p","l","e","m","e","n","t"," ","s","o","l","u","t","i","o","n">>

T_CouldNotParseReview ==
    <<"C","o","u","l","d"," ","n","o","t"," ","p","a","r","s","e"," ","r","e","v","i","e",
      "w">>

T_ManualReviewRecommended ==
    <<"M","a","n","u","a","l"," ","r","e","v","i","e","w"," ","r","e","c","o","m","m","e",
      "n","d","e","d">>

T_ErrorPrefix ==
    <<"E","r","r","o","r",":"," ">>

T_Ellipsis ==
    <<".",".",".">>

T_ReviewThis ==
    <<"R","e","v","i","e","w"," ","t","h","i","s"," ">>

T_CodeColon ==
    <<" ","c","o","d","e",":","\n","\n">>

T_CreateTestsFor ==
    <<"C","r","e","a","t","e"," ","t","e","s","t","s"," ","f","o","r",":","\n","\n">>

T_TestsFor ==
    <<"T","e","s","t","s"," ","f","o","r"," ">>

T_python ==
    <<"p","y","t","h","o","n">>

T_javascript ==
    <<"j","a","v","a","s","c","r","i","p","t">>

T_java ==
    <<"j","a","v","a">>

M_function ==
    <<"f","u","n","c","t","i","o","n">>

M_const ==
    <<"c","o","n","s","t">>

M_let ==
    <<"l","e","t">>

M_var ==
    <<"v","a","r">>

M_public_class ==
    <<"p","u","b","l","i","c"," ","c","l","a","s","s">>

M_private ==
    <<"p","r","i","v","a","t","e">>

M_import_java ==
    <<"i","m","p","o","r","t"," ","j","a","v","a">>

T_py ==
    <<".","p","y">>

T_js ==
    <<".","j","s">>

T_test ==
    <<"_","t","e","s","t">>

T_info ==
    <<"_","i","n","f","o",".","j","s","o","n">>

T_generated ==
    <<"g","e","n","e","r","a","t","e","d","_">>

T_dot_java ==
    <<".","j","a","v","a">>

T_OPENAI_API_KEY ==
    <<"O","P","E","N","A","I","_","A","P","I","_","K","E","Y">>

T_XAI_API_KEY ==
    <<"X","A","I","_","A","P","I","_","K","E","Y">>

T_BaseUrl ==
    <<"h","t","t","p","s",":","/","/","a","p","i",".","x",".","a","i","/","v","1">>

V_Key ==
    <<"s","k","-","1">>

V_SaveName ==
    <<"s","c","r","i","p","t">>

V_Stamp ==
    <<"2","0","2","5","0","1","0","1","_","1","2","0","0","0","0">>

G_Add ==
    <<"c","r","e","a","t","e"," ","a"," ","f","u","n","c","t","i","o","n"," ","t","o"," ",
      "a","d","d"," ","t","w","o"," ","n","u","m","b","e","r","s">>

G_Long ==
    <<"b","u","i","l","d"," ","a"," ","u","s","e","r"," ","c","l","a","s","s"," ","w","i",
      "t","h"," ","v","a","l","i","d","a","t","i","o","n",","," ","b","u","i","l","d"," ",
      "a"," ","u","s","e","r"," ","c","l","a","s","s"," ","w","i","t","h"," ","v","a","l",
      "i","d","a","t","i","o","n",","," ","b","u","i","l","d"," ","a"," ","u","s","e","r",
      " ","c","l","a","s","s"," ","w","i","t","h"," ","v","a","l","i","d","a","t","i","o",
      "n",","," ">>

P_OneTask ==
    <<"[","{","\"","i","d","\"",":"," ","\"","1","\"",","," ","\"","t","a","s","k","\"",":",
      " ","\"","w","r","i","t","e"," ","a","d","d","\"",","," ","\"","p","r","i","o","r",
      "i","t","y","\"",":"," ","\"","h","i","g","h","\"","}","]">>

P_ThreeTasks ==
    <<"[","{","\"","i","d","\"",":","\"","1","\"",",","\"","t","a","s","k","\"",":","\"",
      "p","a","r","s","e","\"",",","\"","p","r","i","o","r","i","t","y","\"",":","\"","h",
      "i","g","h","\"","}",",","\n"," ","{","\"","i","d","\"",":","\"","2","\"",",","\"",
      "t","a","s","k","\"",":","\"","a","d","d","\"",",","\"","p","r","i","o","r","i","t",
      "y","\"",":","\"","l","o","w","\"","}",",","\n"," ","{","\"","i","d","\"",":","\"",
      "3","\"",",","\"","t","a","s","k","\"",":","\"","t","e","s","t","\"",",","\"","p","r",
      "i","o","r","i","t","y","\"",":","\"","l","o","w","\"","}","]">>

P_EmptyList ==
    <<"[","]">>

P_Wrapped ==
    <<"{","\"","t","a","s","k","s","\"",":"," ","[","]","}">>

P_Number ==
    <<"4","2">>

P_Null ==
    <<"n","u","l","l">>

P_ListOfNumbers ==
    <<"[","1",","," ","2","]">>

P_JsonString ==
    <<"\"","p","l","a","n","\"">>

P_TaskWithoutTask ==
    <<"[","{","\"","i","d","\"",":"," ","\"","1","\"","}","]">>

P_Prose ==
    <<"H","e","r","e"," ","a","r","e"," ","t","h","e"," ","t","a","s","k","s",":"," ","1",
      "."," ","a","d","d">>

P_Fenced ==
    <<"~","~","~","j","s","o","n","\n","[","]","\n","~","~","~">>

P_Truncated ==
    <<"[","{","\"","i","d","\"",":"," ","\"","1","\"",","," ","\"","t","a","s","k","\"",":",
      " ","\"","w","r","i">>

P_Trailing ==
    <<"[","]"," ","L","e","t"," ","m","e"," ","k","n","o","w","!">>

P_Empty == <<>>

P_SingleQuoted ==
    <<"[","{","'","i","d","'",":"," ","'","1","'","}","]">>

R_Good ==
    <<"{","\"","s","c","o","r","e","\"",":"," ","9",","," ","\"","i","s","s","u","e","s",
      "\"",":"," ","[","]",","," ","\"","s","u","g","g","e","s","t","i","o","n","s","\"",
      ":"," ","[","\"","a","d","d"," ","t","e","s","t","s","\"","]",","," ","\"","a","p",
      "p","r","o","v","e","d","\"",":"," ","t","r","u","e","}">>

R_Rejected ==
    <<"{","\"","s","c","o","r","e","\"",":"," ","3",","," ","\"","i","s","s","u","e","s",
      "\"",":"," ","[","\"","n","o"," ","v","a","l","i","d","a","t","i","o","n","\"","]",
      ","," ","\"","s","u","g","g","e","s","t","i","o","n","s","\"",":"," ","[","]",","," ",
      "\"","a","p","p","r","o","v","e","d","\"",":"," ","f","a","l","s","e","}">>

R_OnlyApproved ==
    <<"{","\"","a","p","p","r","o","v","e","d","\"",":"," ","f","a","l","s","e","}">>

R_OnlyScore ==
    <<"{","\"","s","c","o","r","e","\"",":"," ","5","}">>

R_NoLists ==
    <<"{","\"","s","c","o","r","e","\"",":"," ","8",","," ","\"","a","p","p","r","o","v",
      "e","d","\"",":"," ","t","r","u","e","}">>

R_WrongTypes ==
    <<"{","\"","s","c","o","r","e","\"",":"," ","\"","h","i","g","h","\"",","," ","\"","i",
      "s","s","u","e","s","\"",":"," ","3",","," ","\"","s","u","g","g","e","s","t","i","o",
      "n","s","\"",":"," ","n","u","l","l",","," ","\"","a","p","p","r","o","v","e","d",
      "\"",":"," ","\"","y","e","s","\"","}">>

R_List ==
    <<"[","7","]">>

R_Number ==
    <<"7">>

R_Prose ==
    <<"S","c","o","r","e",":"," ","7","/","1","0",","," ","a","p","p","r","o","v","e","d">>

R_Fenced ==
    <<"~","~","~","j","s","o","n","\n","{","\"","s","c","o","r","e","\"",":"," ","2",",",
      " ","\"","a","p","p","r","o","v","e","d","\"",":"," ","f","a","l","s","e","}","\n",
      "~","~","~">>

R_Truncated ==
    <<"{","\"","s","c","o","r","e","\"",":"," ","2",","," ","\"","a","p","p","r","o","v",
      "e","d","\"",":"," ","f","a","l">>

C_Python ==
    <<"d","e","f"," ","a","d","d","(","a",","," ","b",")",":","\n"," "," "," "," ","r","e",
      "t","u","r","n"," ","a"," ","+"," ","b">>

C_Js ==
    <<"f","u","n","c","t","i","o","n"," ","a","d","d","(","a",","," ","b",")"," ","{"," ",
      "r","e","t","u","r","n"," ","a"," ","+"," ","b",";"," ","}">>

C_Java ==
    <<"p","u","b","l","i","c"," ","c","l","a","s","s"," ","A","d","d","e","r"," ","{"," ",
      "}">>

C_JavaWithJs ==
    <<"p","r","i","v","a","t","e"," ","i","n","t"," ","v","a","r","i","a","b","l","e",";">>

C_UpperJs ==
    <<"C","O","N","S","T"," ","X"," ","="," ","1">>

C_UpperJava ==
    <<"P","r","i","v","a","t","e"," ","S","u","b"," ","A","d","d","(",")">>

X_Tests ==
    <<"a","s","s","e","r","t"," ","a","d","d","(","1",","," ","2",")"," ","=","="," ","3">>

E_Connection ==
    <<"C","o","n","n","e","c","t","i","o","n"," ","e","r","r","o","r",".">>

E_JsonLooking ==
    <<"[","]">>

F_Function ==
    <<"F","u","n","c","t","i","o","n">>

F_fun ==
    <<"f","u","n">>

F_ction ==
    <<"c","t","i","o","n">>

F_CONST ==
    <<"C","O","N","S","T">>

F_Let ==
    <<"L","e","t">>

F_le ==
    <<"l","e">>

F_t ==
    <<"t">>

F_VAR ==
    <<"V","A","R">>

F_PublicClass ==
    <<"P","u","b","l","i","c"," ","C","l","a","s","s">>

F_public ==
    <<"p","u","b","l","i","c">>

F_class ==
    <<" ","c","l","a","s","s">>

F_PRIVATE ==
    <<"P","R","I","V","A","T","E">>

F_ImportJava ==
    <<"I","m","p","o","r","t"," ","J","a","v","a">>

F_def ==
    <<"d","e","f"," ">>

F_x ==
    <<"x">>

F_space ==
    <<" ">>

-----------------------------------------------------------------------------
(* The chat-completion request, seen from call_openai *)

\* The request completed and choices[0].message.content is the text s.  class
\* records what kind of text the endpoint sent.
Completed(class, s) == [kind |-> "completed", class |-> class, content |-> PyStr(s)]

\* The request completed and choices[0].message.content is None.
NullContent == [kind |-> "completed", class |-> "null", content |-> PyNone]

\* The request raised (how: "transport" or "api"); str(e) is the text msg.
Failed(how, msg) == [kind |-> "failed", class |-> how, content |-> PyStr(msg)]

FailedOutcomes ==
    {Failed("transport", E_Connection), Failed("api", E_JsonLooking)}

PlannerOutcomes ==
    {Completed("expected", s) : s \in {P_OneTask, P_ThreeTasks, P_EmptyList}}
    \cup {Completed("other_json", s) :
            s \in {P_Wrapped, P_Number, P_Null, P_ListOfNumbers, P_JsonString,
                   P_TaskWithoutTask}}
    \cup {Completed("non_json", s) :
            s \in {P_Prose, P_Fenced, P_Truncated, P_Trailing, P_Empty, P_SingleQuoted}}
    \cup {NullContent} \cup FailedOutcomes

CodeOutcomes ==
    {Completed("text", s) :
        s \in {C_Python, C_Js, C_Java, C_JavaWithJs, C_UpperJs, C_UpperJava}}
    \cup {NullContent} \cup FailedOutcomes

CriticOutcomes ==
    {Completed("expected", s) : s \in {R_Good, R_Rejected}}
    \cup {Completed("other_json", s) :
            s \in {R_OnlyApproved, R_OnlyScore, R_NoLists, R_WrongTypes, R_List, R_Number}}
    \cup {Completed("non_json", s) : s \in {R_Prose, R_Fenced, R_Truncated, P_Empty}}
    \cup {NullContent} \cup FailedOutcomes

TestOutcomes ==
    {Completed("text", X_Tests), NullContent, Failed("transport", E_Connection)}

-----------------------------------------------------------------------------
(* class AIAgent *)

\* os.getenv(name)
Getenv(e, name) == e[name]

\* AIAgent.__init__: the client is built with the value of XAI_API_KEY.
AIAgent(name, role, e) ==
    [name |-> name, role |-> role,
     api_key |-> Getenv(e, T_XAI_API_KEY), base_url |-> T_BaseUrl]

\* AIAgent.call_openai, given what the request did: the content on completion,
\* "Error: " + str(e) when the request raised.
CallOpenai(o) ==
    IF o.kind = "completed" THEN o.content
    ELSE PyStr(T_ErrorPrefix \o o.content.s)

\* What the endpoint can do with a request of this agent: it completes only a
\* request that carries a credential, any request can fail.
Accepts(agent, o) == PyTruthy(agent.api_key) \/ o.kind = "failed"

\* One entry of calls.
Call(agent, system, prompt, ret) ==
    [agent |-> agent, system |-> system, prompt |-> prompt, ret |-> ret]

-----------------------------------------------------------------------------
(* class PlannerAgent *)

Task(id, task, priority) ==
    PyDict((K_id :> PyStr(id)) @@ (K_task :> PyStr(task))
           @@ (K_priority :> PyStr(priority)))

\* A faulty variant of PlannerFallback: the second task is missing.
PlannerFallbackSingle ==
    PyList(<<Task(T_1, T_AnalyzeRequirements, T_high)>>)

PlannerFallback ==
    PyList(<<Task(T_1, T_AnalyzeRequirements, T_high),
             Task(T_2, T_ImplementSolution, T_high)>>)

\* PlannerAgent.process
PlannerProcess(prompt, o) ==
    LET response == CallOpenai(o)
        parsed   == JsonLoads(response)
    IN  [exc  |-> "",
         v    |-> IF parsed.exc = "" THEN parsed.v ELSE PlannerFallback,
         call |-> <<Call("PlannerAgent", [template |-> "planner"], prompt, response)>>]

-----------------------------------------------------------------------------
(* class CodeAgent *)

JsKeywords == {M_function, M_const, M_let, M_var}

JavaKeywords == {M_public_class, M_private, M_import_java}

\* A faulty variant of DetectLanguage: the java keywords are tested first.
DetectLanguageJavaFirst(code) ==
    IF \E keyword \in JavaKeywords : Contains(Lower(code), keyword) THEN T_java
    ELSE IF \E keyword \in JsKeywords : Contains(Lower(code), keyword) THEN T_javascript
    ELSE T_python

\* The language detection of CodeAgent.process
DetectLanguage(code) ==
    IF \E keyword \in JsKeywords : Contains(Lower(code), keyword) THEN T_javascript
    ELSE IF \E keyword \in JavaKeywords : Contains(Lower(code), keyword) THEN T_java
    ELSE T_python

\* prompt[:100] in CodeAgent.process
DescriptionLength == 100

\* [task['task'] for task in tasks]: the exception it raises ("" when none) and
\* the values it collects.
TaskSummary(task_list) ==
    LET it == PyIter(task_list)
    IN  IF it.exc # "" THEN [exc |-> it.exc, items |-> <<>>]
        ELSE IF \E i \in DOMAIN it.items : PyGetItem(it.items[i], K_task).exc # ""
        THEN LET first == CHOOSE i \in DOMAIN it.items :
                            /\ PyGetItem(it.items[i], K_task).exc # ""
                            /\ \A j \in 1..(i - 1) : PyGetItem(it.items[j], K_task).exc = ""
             IN  [exc |-> PyGetItem(it.items[first], K_task).exc, items |-> <<>>]
        ELSE [exc |-> "", items |-> [i \in DOMAIN it.items |-> PyGetItem(it.items[i], K_task).v]]

\* CodeAgent.process
CodeProcess(prompt, task_list, o) ==
    LET summary == TaskSummary(task_list)
        code    == CallOpenai(o)
        call    == <<Call("CodeAgent", [template |-> "coder", tasks |-> summary.items],
                          prompt, code)>>
    IN  IF summary.exc # "" THEN [exc |-> summary.exc, v |-> PyNone, call |-> <<>>]
        ELSE IF ~IsStr(code) THEN [exc |-> "AttributeError", v |-> PyNone, call |-> call]
        ELSE [exc  |-> "",
              v    |-> [code        |-> code,
                        language    |-> DetectLanguage(code.s),
                        description |-> Prefix(prompt, DescriptionLength) \o T_Ellipsis],
              call |-> call]

-----------------------------------------------------------------------------
(* class CriticAgent *)

CriticFallbackScore == 7

\* A faulty variant of CriticFallback: the fallback does not approve.
CriticFallbackRejected ==
    PyDict((K_score :> PyInt(CriticFallbackScore))
           @@ (K_issues :> PyList(<<PyStr(T_CouldNotParseReview)>>))
           @@ (K_suggestions :> PyList(<<PyStr(T_ManualReviewRecommended)>>))
           @@ (K_approved :> PyBool(FALSE)))

CriticFallback ==
    PyDict((K_score :> PyInt(CriticFallbackScore))
           @@ (K_issues :> PyList(<<PyStr(T_CouldNotParseReview)>>))
           @@ (K_suggestions :> PyList(<<PyStr(T_ManualReviewRecommended)>>))
           @@ (K_approved :> PyBool(TRUE)))

\* The user message of CriticAgent.process
CriticPrompt(cr) == T_ReviewThis \o cr.language \o T_CodeColon \o cr.code.s

\* CriticAgent.process
CriticProcess(cr, o) ==
    LET response == CallOpenai(o)
        parsed   == JsonLoads(response)
    IN  [exc  |-> "",
         v    |-> IF parsed.exc = "" THEN parsed.v ELSE CriticFallback,
         call |-> <<Call("CriticAgent", [template |-> "critic"], CriticPrompt(cr), response)>>]

-----------------------------------------------------------------------------
(* class TestAgent *)

\* The user message of TestAgent.process
TestPrompt(cr) == T_CreateTestsFor \o cr.code.s

\* A faulty variant of TestAgent.process: the result's language is always python.
TestProcessFixedLanguage(cr, o) ==
    LET test_code == CallOpenai(o)
    IN  [exc  |-> "",
         v    |-> [test_code   |-> test_code,
                   language    |-> T_python,
                   description |-> T_TestsFor \o cr.description],
         call |-> <<Call("TestAgent", [template |-> "tester", language |-> cr.language],
                         TestPrompt(cr), test_code)>>]

\* TestAgent.process
TestProcess(cr, o) ==
    LET test_code == CallOpenai(o)
    IN  [exc  |-> "",
         v    |-> [test_code   |-> test_code,
                   language    |-> cr.language,
                   description |-> T_TestsFor \o cr.description],
         call |-> <<Call("TestAgent", [template |-> "tester", language |-> cr.language],
                         TestPrompt(cr), test_code)>>]

-----------------------------------------------------------------------------
(* class AIAgentOrchestrator *)

StageNames == <<"Planning", "Coding", "Reviewing", "Testing">>

NotYet == [t |-> "unset"]

NoException == [type |-> "", where |-> ""]

Exception(type, where) == [type |-> type, where |-> where]

\* AIAgentOrchestrator.__init__
Orchestrator(e) ==
    [planner |-> AIAgent("PlannerAgent", "Task Planner", e),
     coder   |-> AIAgent("CodeAgent", "Code Generator", e),
     critic  |-> AIAgent("CriticAgent", "Code Reviewer", e),
     tester  |-> AIAgent("TestAgent", "Test Generator", e)]

\* A faulty variant of CompileResult: quality_score and approved are exchanged.
CompileResultSwapped(prompt, t, cr, rv, ts) ==
    LET score    == PyGetItem(rv, K_score)
        approved == PyGetItem(rv, K_approved)
    IN  IF score.exc # "" THEN Raise(score.exc)
        ELSE IF approved.exc # "" THEN Raise(approved.exc)
        ELSE NoExc([prompt        |-> prompt,
                    tasks         |-> t,
                    code          |-> cr.code,
                    language      |-> cr.language,
                    review        |-> rv,
                    tests         |-> ts.test_code,
                    quality_score |-> approved.v,
                    approved      |-> score.v])

\* The record generate_code returns; exc is the exception of its subscripts.
CompileResult(prompt, t, cr, rv, ts) ==
    LET score    == PyGetItem(rv, K_score)
        approved == PyGetItem(rv, K_approved)
    IN  IF score.exc # "" THEN Raise(score.exc)
        ELSE IF approved.exc # "" THEN Raise(approved.exc)
        ELSE NoExc([prompt        |-> prompt,
                    tasks         |-> t,
                    code          |-> cr.code,
                    language      |-> cr.language,
                    review        |-> rv,
                    tests         |-> ts.test_code,
                    quality_score |-> score.v,
                    approved      |-> approved.v])

\* generate_code, step 1: planner.process, then the print of len(tasks).
Plan(o) ==
    /\ pc = "Planning"
    /\ Accepts(agents.planner, o)
    /\ LET r == PlannerProcess(args.prompt, o)
           e == PyLen(r.v).exc
       IN  /\ stages' = Append(stages, "Planning")
           /\ outcomes' = ("Planning" :> o) @@ outcomes
           /\ calls' = calls \o r.call
           /\ tasks' = r.v
           /\ IF e # ""
              THEN pc' = "raised" /\ exc' = Exception(e, "generate_code")
              ELSE pc' = "Coding" /\ UNCHANGED exc
    /\ UNCHANGED <<env, args, agents, code_result, review, tests, result, files>>

\* generate_code, step 2: coder.process, then the print of the language.
CodeStage(o) ==
    /\ pc = "Coding"
    /\ Accepts(agents.coder, o)
    /\ LET r == CodeProcess(args.prompt, tasks, o)
       IN  /\ stages' = Append(stages, "Coding")
           /\ calls' = calls \o r.call
           /\ outcomes' = IF r.call = <<>> THEN outcomes ELSE ("Coding" :> o) @@ outcomes
           /\ IF r.exc # ""
              THEN pc' = "raised" /\ exc' = Exception(r.exc, "generate_code")
                   /\ UNCHANGED code_result
              ELSE pc' = "Reviewing" /\ code_result' = r.v /\ UNCHANGED exc
    /\ UNCHANGED <<env, args, agents, tasks, review, tests, result, files>>

Code == \E o \in CodeOutcomes : CodeStage(o)

\* generate_code, step 3: critic.process, then the print of review['score'].
Review(o) ==
    /\ pc = "Reviewing"
    /\ Accepts(agents.critic, o)
    /\ LET r == CriticProcess(code_result, o)
           e == PyGetItem(r.v, K_score).exc
       IN  /\ stages' = Append(stages, "Reviewing")
           /\ outcomes' = ("Reviewing" :> o) @@ outcomes
           /\ calls' = calls \o r.call
           /\ review' = r.v
           /\ IF e # ""
              THEN pc' = "raised" /\ exc' = Exception(e, "generate_code")
              ELSE pc' = "Testing" /\ UNCHANGED exc
    /\ UNCHANGED <<env, args, agents, tasks, code_result, tests, result, files>>

\* generate_code, step 4 and the return: tester.process, then the result record.
Test(o) ==
    /\ pc = "Testing"
    /\ Accepts(agents.tester, o)
    /\ LET r   == TestProcess(code_result, o)
           res == CompileResult(args.prompt, tasks, code_result, review, r.v)
       IN  /\ stages' = Append(stages, "Testing")
           /\ outcomes' = ("Testing" :> o) @@ outcomes
           /\ calls' = calls \o r.call
           /\ tests' = r.v
           /\ IF res.exc # ""
              THEN pc' = "raised" /\ exc' = Exception(res.exc, "generate_code")
                   /\ UNCHANGED result
              ELSE pc' = "Done" /\ result' = res.v /\ UNCHANGED exc
    /\ UNCHANGED <<env, args, agents, tasks, code_result, review, files>>

-----------------------------------------------------------------------------
(* AIAgentOrchestrator.save_result *)

\* The base name: the one given, or "generated_<timestamp>" when it is falsy.
SaveBase(filename, now) ==
    IF PyTruthy(filename) THEN filename.s ELSE T_generated \o now

\* A faulty variant of SaveExt: one extension per classified language.
SaveExtPerLanguage(language) ==
    IF language = T_python THEN T_py
    ELSE IF language = T_java THEN T_dot_java
    ELSE T_js

\* The extension of the code file and of the test file.
SaveExt(language) == IF language = T_python THEN T_py ELSE T_js

CodeFile(base, language) == base \o SaveExt(language)

TestFile(base, language) == base \o T_test \o SaveExt(language)

InfoFile(base) == base \o T_info

\* {k: v for k, v in result.items() if k not in ['code', 'tests']}, as json.dump
\* is given it.
Metadata(res) ==
    [t |-> "json",
     v |-> [prompt |-> res.prompt, tasks |-> res.tasks, language |-> res.language,
            review |-> res.review, quality_score |-> res.quality_score,
            approved |-> res.approved]]

\* The files save_result leaves and the exception that ends it: open(.., 'w')
\* creates the file empty, f.write(None) raises TypeError.
SaveResult(res, filename, now) ==
    LET base   == SaveBase(filename, now)
        code_f == CodeFile(base, res.language)
        test_f == TestFile(base, res.language)
        one    == (code_f :> res.code)
        two    == (test_f :> (IF IsStr(res.tests) THEN res.tests ELSE PyStr(<<>>))) @@ one
    IN  IF ~IsStr(res.tests) THEN [exc |-> "TypeError", files |-> two]
        ELSE [exc |-> "", files |-> (InfoFile(base) :> Metadata(res)) @@ two]

-----------------------------------------------------------------------------
(* main *)

\* The exception raised by the report of main ("" when none): the subscripts
\* 'issues' and 'suggestions' of the review, len() of the first and the loops.
ShowExc(res) ==
    LET issues      == PyGetItem(res.review, K_issues)
        suggestions == PyGetItem(res.review, K_suggestions)
    IN  IF issues.exc # "" THEN issues.exc
        ELSE IF PyLen(issues.v).exc # "" THEN PyLen(issues.v).exc
        ELSE IF suggestions.exc # "" THEN suggestions.exc
        ELSE IF PyTruthy(suggestions.v) /\ PyIter(suggestions.v).exc # ""
        THEN PyIter(suggestions.v).exc
        ELSE ""

\* main: the check of the API key.
CheckKey ==
    /\ pc = "start"
    /\ pc' = IF ~PyTruthy(Getenv(env, T_OPENAI_API_KEY)) THEN "aborted" ELSE "checked"
    /\ UNCHANGED <<env, args, agents, calls, outcomes, stages, tasks, code_result,
                   review, tests, result, files, exc>>

\* main: orchestrator = AIAgentOrchestrator()
Construct ==
    /\ pc = "checked"
    /\ agents' = Orchestrator(env)
    /\ pc' = "Planning"
    /\ UNCHANGED <<env, args, calls, outcomes, stages, tasks, code_result,
                   review, tests, result, files, exc>>

\* main: the report printed after generate_code returned.
Show ==
    /\ pc = "Done"
    /\ IF ShowExc(result) # ""
       THEN pc' = "raised" /\ exc' = Exception(ShowExc(result), "main")
       ELSE pc' = "shown" /\ UNCHANGED exc
    /\ UNCHANGED <<env, args, agents, calls, outcomes, stages, tasks, code_result,
                   review, tests, result, files>>

\* main: if args.save: orchestrator.save_result(result, args.save)
Save ==
    /\ pc = "shown"
    /\ PyTruthy(args.save)
    /\ \E now \in {V_Stamp} :
         LET r == SaveResult(result, args.save, now)
         IN  /\ files' = r.files
             /\ IF r.exc # ""
                THEN pc' = "raised" /\ exc' = Exception(r.exc, "save_result")
                ELSE pc' = "exit" /\ UNCHANGED exc
    /\ UNCHANGED <<env, args, agents, calls, outcomes, stages, tasks, code_result,
                   review, tests, result>>

\* main returns without saving.
Exit ==
    /\ pc = "shown"
    /\ ~PyTruthy(args.save)
    /\ pc' = "exit"
    /\ UNCHANGED <<env, args, agents, calls, outcomes, stages, tasks, code_result,
                   review, tests, result, files, exc>>

-----------------------------------------------------------------------------
(* The program *)

EnvValues == {PyNone, PyStr(<<>>), PyStr(V_Key)}

Goals == {G_Add, G_Long}

SaveArgs == {PyNone, PyStr(V_SaveName)}

Init ==
    /\ pc = "start"
    /\ env \in {(T_OPENAI_API_KEY :> a) @@ (T_XAI_API_KEY :> b) :
                   a \in EnvValues, b \in EnvValues}
    /\ args \in {[prompt |-> g, save |-> s] : g \in Goals, s \in SaveArgs}
    /\ agents = NotYet
    /\ calls = <<>>
    /\ outcomes = [s \in {} |-> NullContent]
    /\ stages = <<>>
    /\ tasks = NotYet
    /\ code_result = NotYet
    /\ review = NotYet
    /\ tests = NotYet
    /\ result = NotYet
    /\ files = [f \in {} |-> PyNone]
    /\ exc = NoException

Next ==
    \/ CheckKey
    \/ Construct
    \/ \E o \in PlannerOutcomes : Plan(o)
    \/ Code
    \/ \E o \in CriticOutcomes : Review(o)
    \/ \E o \in TestOutcomes : Test(o)
    \/ Show
    \/ Save
    \/ Exit

Spec == Init /\ [][Next]_vars

-----------------------------------------------------------------------------
(* The language detection on its own: the Code Stage applied to texts put   *)
(* together from fragments of the keywords in both letter cases.            *)

MaxFrags == 2

Fragments ==
    {M_function, F_Function, F_fun, F_ction, M_const, F_CONST, M_let, F_Let, F_le, F_t,
     M_var, F_VAR, M_public_class, F_PublicClass, F_public, F_class, M_private,
     F_PRIVATE, M_import_java, F_ImportJava, F_def, F_x, F_space}

\* The texts made of at most n fragments.
RECURSIVE TextsUpTo(_)
TextsUpTo(n) ==
    IF n = 0 THEN {<<>>}
    ELSE LET S == TextsUpTo(n - 1) IN S \cup {s \o f : s \in S, f \in Fragments}

\* The state in which generate_code starts its step 2, after a planner call
\* that returned a task list or failed.
InitClassify ==
    /\ pc = "Coding"
    /\ env = (T_OPENAI_API_KEY :> PyStr(V_Key)) @@ (T_XAI_API_KEY :> PyStr(V_Key))
    /\ args = [prompt |-> G_Add, save |-> PyNone]
    /\ agents = Orchestrator(env)
    /\ \E o \in {Completed("expected", P_OneTask), Failed("transport", E_Connection)} :
         /\ outcomes = ("Planning" :> o)
         /\ calls = PlannerProcess(args.prompt, o).call
         /\ tasks = PlannerProcess(args.prompt, o).v
    /\ stages = <<"Planning">>
    /\ code_result = NotYet
    /\ review = NotYet
    /\ tests = NotYet
    /\ result = NotYet
    /\ files = [f \in {} |-> PyNone]
    /\ exc = NoException

Classify == \E s \in TextsUpTo(MaxFrags) : CodeStage(Completed("text", s))

SpecClassify == InitClassify /\ [][Classify]_vars

-----------------------------------------------------------------------------
(* Properties *)

Ran(stage) == stage \in DOMAIN outcomes

Returned == result # NotYet

\* C1: generate_code never raises and always returns a record holding prompt,
\* tasks, code, language, review, tests, quality_score and approved, whatever
\* text or error the inference call returns at each stage.
C1_AlwaysReturnsRecord ==
    /\ exc.where # "generate_code"
    /\ Returned =>
         DOMAIN result = {"prompt", "tasks", "code", "language", "review", "tests",
                          "quality_score", "approved"}

\* C2: every value call_openai returns is a string, whatever the request did.
C2_CallReturnsString ==
    \A i \in DOMAIN calls : calls[i].ret.t = "str"

\* C3: when the critic's inference call returns text that is not JSON, or an
\* error string, the review is the fixed fallback (approved true, score 7, the
\* fixed issues and suggestions) and no exception leaves generate_code.
C3_ReviewFallback ==
    (Ran("Reviewing") /\ outcomes["Reviewing"].class \in {"non_json", "transport", "api"}) =>
        /\ review.t = "dict"
        /\ DOMAIN review.d = {K_score, K_issues, K_suggestions, K_approved}
        /\ review.d[K_score] = PyInt(7)
        /\ review.d[K_approved] = PyBool(TRUE)
        /\ review.d[K_issues] = PyList(<<PyStr(T_CouldNotParseReview)>>)
        /\ review.d[K_suggestions] = PyList(<<PyStr(T_ManualReviewRecommended)>>)
        /\ exc.where # "generate_code"

\* C3 witness: a fenced reply whose JSON says "score 2, not approved" was
\* replaced by the approved fallback, and the pipeline went on.
C3_Witness ==
    /\ pc = "Testing"
    /\ outcomes["Reviewing"] = Completed("non_json", R_Fenced)
    /\ review.d[K_approved] = PyBool(TRUE)

\* C4: when the planner's inference call returns text that is not JSON, or an
\* error string, the task list is the fixed two-task fallback, nothing of the
\* response is kept, and no exception is raised by the planning step.
C4_PlannerFallback ==
    (Ran("Planning") /\ outcomes["Planning"].class \in {"non_json", "transport", "api"}) =>
        /\ tasks.t = "list"
        /\ Len(tasks.items) = 2
        /\ tasks.items[1].d = (K_id :> PyStr(T_1)) @@ (K_task :> PyStr(T_AnalyzeRequirements))
                              @@ (K_priority :> PyStr(T_high))
        /\ tasks.items[2].d = (K_id :> PyStr(T_2)) @@ (K_task :> PyStr(T_ImplementSolution))
                              @@ (K_priority :> PyStr(T_high))
        /\ ~(pc = "raised" /\ stages = <<"Planning">>)

\* C4 witness: a truncated JSON reply was replaced by the two fallback tasks.
C4_Witness ==
    /\ pc = "Coding"
    /\ outcomes["Planning"] = Completed("non_json", P_Truncated)
    /\ Len(tasks.items) = 2

\* Whether two characters are the same letter, in either case.
SameLetter(a, b) ==
    \/ a = b
    \/ \E i \in DOMAIN UpperChars : {a, b} = {UpperChars[i], LowerChars[i]}

\* Whether marker occurs in s when the case of the letters is ignored.
OccursIgnoringCase(s, marker) ==
    \E i \in 0..(Len(s) - Len(marker)) :
        \A j \in 1..Len(marker) : SameLetter(s[i + j], marker[j])

Classified == code_result # NotYet

\* C5 as stated, with "containing" read on the text as it is: a text holding
\* "function" is javascript, a text holding none of the seven markers is
\* python, and java is given only to a text holding a java marker.
C5_MarkersAsWritten ==
    Classified =>
        LET text == code_result.code.s
            lang == code_result.language
        IN  /\ lang \in {T_python, T_javascript, T_java}
            /\ Contains(text, M_function) => lang = T_javascript
            /\ (\A m \in JsKeywords \cup JavaKeywords : ~Contains(text, m)) => lang = T_python
            /\ lang = T_java => /\ \E m \in JavaKeywords : Contains(text, m)
                                /\ \A m \in JsKeywords : ~Contains(text, m)

\* C5 amended: the markers are matched whatever the case of the letters.  The
\* language is one of the three; a text holding a javascript marker in any
\* letter case is javascript, also when it holds java markers; java is given
\* exactly to a text holding a java marker and no javascript marker in any
\* letter case; every other text is python.
C5_MarkersIgnoringCase ==
    Classified =>
        LET text == code_result.code.s
            lang == code_result.language
            js   == \E m \in {M_function, M_const, M_let, M_var} : OccursIgnoringCase(text, m)
            java == \E m \in {M_public_class, M_private, M_import_java} :
                        OccursIgnoringCase(text, m)
        IN  /\ lang \in {T_python, T_javascript, T_java}
            /\ lang = T_javascript <=> js
            /\ lang = T_java <=> (java /\ ~js)
            /\ lang = T_python <=> (~java /\ ~js)

\* C5 witness: a text holding a java marker and a javascript marker, both in
\* capitals, was classified javascript.
C5_Witness ==
    /\ Classified
    /\ code_result.code.s = F_PRIVATE \o F_Function
    /\ code_result.language = T_javascript

Saved == pc = "exit" /\ PyTruthy(args.save)

\* C6: the files save_result writes are <base>.py and <base>_test.py for a
\* python result, <base>.js and <base>_test.js for every other language, and
\* <base>_info.json; a completed save has written all three.
C6_FileExtension ==
    LET base == args.save.s
        ext  == IF result.language = <<"p","y","t","h","o","n">>
                THEN <<".","p","y">> ELSE <<".","j","s">>
        names == {base \o ext, base \o T_test \o ext, base \o T_info}
    IN  /\ files # [f \in {} |-> PyNone] => DOMAIN files \subseteq names
        /\ Saved => DOMAIN files = names

\* C6 witness: a result classified java was saved, its code in <base>.js.
C6_Witness ==
    /\ Saved
    /\ result.language = T_java
    /\ (args.save.s \o T_js) \in DOMAIN files

\* C7: in every record generate_code returns, quality_score is the score of
\* the review in that record and approved is its approved field.
C7_ScoreIsReviewScore ==
    Returned =>
        /\ result.review = review
        /\ result.quality_score = result.review.d[K_score]
        /\ result.approved = result.review.d[K_approved]

\* C7 witness: a parsed review with score 3 and approved false was returned.
C7_Witness ==
    /\ Returned
    /\ outcomes["Reviewing"] = Completed("expected", R_Rejected)
    /\ result.quality_score = PyInt(3)
    /\ result.approved = PyBool(FALSE)

\* Whether generate_code has ended, by a return or by an exception.
Ended == Returned \/ exc.where = "generate_code"

\* C8: the stages start in the order Planning, Coding, Reviewing, Testing, each
\* once, and none is skipped: when generate_code has ended all four have run
\* and it has returned, also when the review says approved = false.
C8_StrictSequence ==
    /\ \E n \in 0..Len(StageNames) : stages = SubSeq(StageNames, 1, n)
    /\ Ended => (stages = StageNames /\ Returned)

\* C9: when the variable that holds the client's credential (XAI_API_KEY) is
\* unset, main stops before any agent is built and any call is issued; and
\* once the check of main has passed, every client holds a credential.
C9_CredentialChecked ==
    /\ Getenv(env, T_XAI_API_KEY) = PyNone =>
         (agents = NotYet /\ calls = <<>> /\ stages = <<>>)
    /\ agents # NotYet =>
         \A a \in DOMAIN agents : agents[a].api_key # PyNone

\* C10: the code the Code Stage's single call returned is, unchanged, the text
\* sent for review, the text sent for tests and the code of the final record;
\* and the language classified by the Code Stage is the one in the review
\* prompt, in the tester's instruction, in the TestResult and in the record.
C10_CodeResultPassedThrough ==
    Returned =>
        LET code == calls[2].ret
            lang == DetectLanguage(code.s)
        IN  /\ Len(calls) = 4
            /\ calls[2].agent = "CodeAgent"
            /\ code_result.code = code /\ code_result.language = lang
            /\ calls[3].prompt = T_ReviewThis \o lang \o T_CodeColon \o code.s
            /\ calls[4].prompt = T_CreateTestsFor \o code.s
            /\ calls[4].system.language = lang
            /\ tests.language = lang
            /\ result.code = code /\ result.language = lang

\* C10 witness: a javascript text went through review and tests into the record.
C10_Witness ==
    /\ Returned
    /\ result.code = PyStr(C_Js)
    /\ tests.language = T_javascript
    /\ calls[3].prompt = T_ReviewThis \o T_javascript \o T_CodeColon \o C_Js

=============================================================================
